---------------------------- MODULE Spec2Model ----------------------------
(***************************************************************************)
(* Voice activity detection and music ducking of the voice productivity    *)
(* companion: VoiceProcessor (services/voiceProcessor.js), AudioSystem     *)
(* (services/audioSystem.js), the renderer that wires them together        *)
(* (renderer/renderer.js) and the global shortcuts of the main process     *)
(* (main.js).                                                              *)
(*                                                                         *)
(* Number representation.  The program computes with IEEE doubles; the     *)
(* model uses fixed point with truncating division:                        *)
(*   - samples and energies in units of 1/10000 (0.01 is 100),             *)
(*   - gains and volumes in units of 1/1000 (0.5 is 500),                  *)
(*   - factors 0.8, 1.5, 0.2 and 0.1 as the fractions 8/10, 15/10, 200/1000 *)
(*     and 1/10,                                                           *)
(*   - timestamps (Date.now()) in milliseconds.                            *)
(***************************************************************************)
EXTENDS Integers, Sequences, FiniteSets, TLC

VARIABLES
    \* environment
    now,              \* the value the last Date.now() returned (ms)
    frames,           \* audio callbacks delivered so far
    apiKey,           \* process.env.DEEPGRAM_API_KEY is set
    \* VoiceProcessor
    deepgram,         \* the Deepgram client exists
    isListening,
    vadEnabled,
    vadThreshold,
    currentEnergy,
    speechStartTime,
    lastSpeechTime,
    isSpeechActive,
    energyHistory,
    \* renderer (VoiceProductivityCompanion)
    isInitialized,
    rendererListening,   \* the renderer's own isListening
    vadListeners,        \* the speechStart / speechEnd listeners are attached
    \* AudioSystem
    volume,
    isPlaying,
    currentAudio,     \* index into sinks, 0 for null
    demoAudio,        \* index into sinks, 0 for null / undefined
    isVADMuted,
    originalVolume,
    originalGain,
    vadDuckingFactor,
    sinks,            \* every Audio element / gain node created so far
    fades,            \* gain ramps issued by fadeVolume / fadeGain
    timers,           \* ramps still running, in the order their next step fires
    \* main process
    mainWindow,       \* "hidden" or "visible"
    toggleMessages,   \* toggle-microphone messages sent and not yet received
    toggleSent,       \* toggle-microphone messages sent so far
    \* capture resources of the VoiceProcessor
    awaiting,         \* startListening calls suspended at getUserMedia
    connections,      \* live transcription connections created, not finished
    streams,          \* microphone streams acquired and not stopped
    contexts,         \* audio contexts created and not closed
    liveTranscription,   \* this.liveTranscription is set
    mediaStream,         \* this.mediaStream is set
    audioContext,        \* this.audioContext is set
    \* AudioSystem: music requests
    requests,         \* executeCommand calls, each at the await it has reached
    trackCache,       \* this.trackCache: cache key -> track
    freesoundApiKey,  \* this.freesoundApiKey is set
    \* observation
    log,              \* one entry per frame processVAD processed and per
                      \* event emitted outside processVAD
    scenario          \* position in a scripted input sequence

vpVars == <<deepgram, isListening, vadEnabled, vadThreshold, currentEnergy,
            speechStartTime, lastSpeechTime, isSpeechActive, energyHistory>>
rendererVars == <<isInitialized, rendererListening, vadListeners>>
playbackVars == <<volume, isPlaying, currentAudio, demoAudio, sinks>>
duckVars == <<isVADMuted, originalVolume, originalGain, fades, timers>>
audioVars == <<playbackVars, duckVars>>
envVars == <<now, frames, apiKey>>
mainVars == <<mainWindow, toggleMessages, toggleSent>>
captureVars == <<awaiting, connections, streams, contexts, liveTranscription,
                 mediaStream, audioContext>>
requestVars == <<requests, trackCache, freesoundApiKey>>
vars == <<envVars, vpVars, rendererVars, audioVars, vadDuckingFactor, requestVars, mainVars,
          captureVars, log, scenario>>

---------------------------------------------------------------------------
(* Bounds of the model *)

MaxFrames == 3        \* audio callbacks in one run of Spec
MaxDetectorFrames == 5 \* audio callbacks in one run of DetectorSpec
MaxSinks == 2         \* Audio elements / gain nodes created in one run
MaxSteadyFrames == 16 \* audio callbacks in one run of SteadySpec
MaxSets == 1          \* adjustVolume calls in one run of DuckSpec
MaxOverrun == 1       \* callbacks of a ramp counted past its last step
MaxStarts == 5        \* live transcription connections open at once
MaxToggles == 4       \* toggle-microphone messages sent in one run

(* The inputs *)

\* Sample magnitudes of the frames delivered: silence, a murmur below the
\* default threshold, and speech.
Amplitudes == {0, 90, 5000}
\* Milliseconds between two audio callbacks, as Date.now() sees them.
FrameGaps == {200, 1000}
\* Amplitudes a steady speaker may speak at (SteadySpec).
SpeechAmplitudes == {600, 5000}
\* The scripted scenario of ScenarioSpec: frames every 10 ms; up to 10 silent
\* frames, then 50 frames (500 ms) that hold the smoothed energy at 0.05,
\* then 120 frames (1200 ms) of instantaneous energy 0.001.
Script == [gap |-> 10, silent |-> 10, steady |-> 50, drop |-> 120,
           kick |-> 2500, level |-> 500, low |-> 10]

---------------------------------------------------------------------------
(* Program constants *)

Null == 0                      \* null: Date.now() is never 0, and the code
                               \* tests timestamps for truthiness
DefaultVadThreshold == 100     \* 0.01
vadSmoothingFactor == 8        \* 0.8, in tenths
vadMinSpeechDuration == 300
vadSilenceTimeout == 1000
maxHistoryLength == 10
FramePeriod == 256             \* 4096 samples at 16 kHz, in ms
NoGain == 0 - 1                \* null in originalVolume / originalGain
DefaultVolume == 500           \* 0.5
DefaultDuckingFactor == 200    \* 0.2, in thousandths
vadFadeTime == 100
FadeSteps == 20                \* const steps = 20
VolumeDelta == 100             \* adjustVolume(0.1) / adjustVolume(-0.1)
NaN == 0 - 1                   \* not-a-number: energies are never negative
MinVadThreshold == 10          \* 0.001
MaxVadThreshold == 1000        \* 0.1
MinDuckingFactor == 100        \* 0.1, in thousandths
MaxDuckingFactor == 1000       \* 1.0

---------------------------------------------------------------------------
(* Arithmetic helpers *)

Max(a, b) == IF a >= b THEN a ELSE b

\* Math.max and Math.min: NaN when an argument is.
MathMax(a, b) == IF a = NaN \/ b = NaN THEN NaN ELSE Max(a, b)

MathMin(a, b) == IF a = NaN \/ b = NaN THEN NaN
                 ELSE IF a <= b THEN a ELSE b

RECURSIVE SumSeq(_)
SumSeq(s) == IF s = <<>> THEN 0 ELSE Head(s) + SumSeq(Tail(s))

RECURSIVE SqrtBetween(_, _, _)
\* The largest r in lo..hi with r * r <= x (Math.sqrt, truncated).
SqrtBetween(x, lo, hi) ==
    IF lo >= hi THEN lo
    ELSE LET mid == (lo + hi + 1) \div 2
         IN  IF mid * mid <= x THEN SqrtBetween(x, mid, hi)
                               ELSE SqrtBetween(x, lo, mid - 1)

Sqrt(x) == SqrtBetween(x, 0, 10000)

---------------------------------------------------------------------------
(* VoiceProcessor: the pure parts of the detector *)

\* calculateAudioEnergy: root mean square of the samples. With no samples
\* sum / audioData.length is 0 / 0, which is NaN, and so is its square root.
calculateAudioEnergy(audioData) ==
    IF Len(audioData) = 0 THEN NaN
    ELSE Sqrt(SumSeq([i \in 1..Len(audioData) |-> audioData[i] * audioData[i]])
                 \div Len(audioData))

\* updateEnergyHistory dropping the value just pushed instead of the oldest.
updateEnergyHistoryPop(history, energy) ==
    LET pushed == Append(history, energy)
    IN  IF Len(pushed) > maxHistoryLength
            THEN SubSeq(pushed, 1, maxHistoryLength) ELSE pushed

\* updateEnergyHistory: push, then shift when longer than maxHistoryLength.
updateEnergyHistory(history, energy) ==
    LET pushed == Append(history, energy)
    IN  IF Len(pushed) > maxHistoryLength THEN Tail(pushed) ELSE pushed

\* The mean of the history without the value pushed last.
getAverageEnergyStale(history) ==
    IF Len(history) <= 1 THEN 0
    ELSE SumSeq(SubSeq(history, 1, Len(history) - 1)) \div (Len(history) - 1)

\* getAverageEnergy: the sum is NaN as soon as one term is.
getAverageEnergy(history) ==
    IF Len(history) = 0 THEN 0
    ELSE IF \E i \in 1..Len(history) : history[i] = NaN THEN NaN
    ELSE SumSeq(history) \div Len(history)

\* The moving average with the new sample at full weight.
SmoothedEnergyUnweighted(previous, instantEnergy) ==
    IF previous = NaN \/ instantEnergy = NaN THEN NaN
    ELSE (vadSmoothingFactor * previous) \div 10 + instantEnergy

\* The exponential moving average of processVAD.
SmoothedEnergy(previous, instantEnergy) ==
    IF previous = NaN \/ instantEnergy = NaN THEN NaN
    ELSE (vadSmoothingFactor * previous
             + (10 - vadSmoothingFactor) * instantEnergy) \div 10

\* The threshold without its adaptive part: this.vadThreshold alone.
AdaptiveThresholdFixed(threshold, avgEnergy) == threshold

\* The threshold without its floor: avgEnergy * 1.5 alone.
AdaptiveThresholdNoFloor(threshold, avgEnergy) == (avgEnergy * 15) \div 10

\* Math.max(this.vadThreshold, avgEnergy * 1.5); Math.max is NaN when an
\* argument is.
AdaptiveThreshold(threshold, avgEnergy) ==
    IF avgEnergy = NaN THEN NaN
    ELSE MathMax(threshold, (avgEnergy * 15) \div 10)

\* this.currentEnergy > adaptiveThreshold; a comparison with NaN is false.
IsSpeechDetected(energy, adaptiveThreshold) ==
    /\ energy # NaN
    /\ adaptiveThreshold # NaN
    /\ energy > adaptiveThreshold

---------------------------------------------------------------------------
(* VoiceProcessor.processVAD, from the smoothed energy on *)

\* if (!this.speechStartTime) this.speechStartTime = currentTime
StartTimeOnSpeech(start, currentTime) ==
    IF start = Null THEN currentTime ELSE start

\* The start test without its !this.isSpeechActive guard.
ShouldStartSpeechAgain(speechDuration, active) ==
    speechDuration >= vadMinSpeechDuration

\* speechDuration >= this.vadMinSpeechDuration && !this.isSpeechActive
ShouldStartSpeech(speechDuration, active) ==
    speechDuration >= vadMinSpeechDuration /\ ~active

\* The end test with > in place of >=.
ShouldEndSpeechLate(active, last, currentTime) ==
    active /\ last # Null /\ currentTime - last > vadSilenceTimeout

\* this.isSpeechActive && this.lastSpeechTime, then
\* silenceDuration >= this.vadSilenceTimeout
ShouldEndSpeech(active, last, currentTime) ==
    active /\ last # Null /\ currentTime - last >= vadSilenceTimeout

\* The state processVAD leaves and the event it emits, for a frame read at
\* currentTime while VAD is enabled.
VADStep(audioData, currentTime) ==
    LET instantEnergy == calculateAudioEnergy(audioData)
        energy == SmoothedEnergy(currentEnergy, instantEnergy)
        history == updateEnergyHistory(energyHistory, energy)
        avgEnergy == getAverageEnergy(history)
        adaptiveThreshold == AdaptiveThreshold(vadThreshold, avgEnergy)
        isSpeechDetected == IsSpeechDetected(energy, adaptiveThreshold)
        start == StartTimeOnSpeech(speechStartTime, currentTime)
        starts == ShouldStartSpeech(currentTime - start, isSpeechActive)
        ends == ShouldEndSpeech(isSpeechActive, lastSpeechTime, currentTime)
    IN  [ samples |-> Len(audioData),
          instantEnergy |-> instantEnergy,
          currentEnergy |-> energy,
          energyHistory |-> history,
          adaptiveThreshold |-> adaptiveThreshold,
          detected |-> isSpeechDetected,
          speechStartTime |->
              IF isSpeechDetected THEN start
              ELSE IF ends THEN Null ELSE speechStartTime,
          lastSpeechTime |->
              IF isSpeechDetected THEN currentTime ELSE lastSpeechTime,
          isSpeechActive |->
              IF isSpeechDetected THEN (isSpeechActive \/ starts)
              ELSE (isSpeechActive /\ ~ends),
          event |->
              IF isSpeechDetected
                  THEN (IF starts THEN "speechStart" ELSE "none")
                  ELSE (IF ends THEN "speechEnd" ELSE "none") ]

---------------------------------------------------------------------------
(* AudioSystem: ducking *)

\* fadeVolume / fadeGain: a ramp of the sink from its present gain to target.
\* cause names the handler that issued it and sets is the number of
\* adjustVolume calls made by then; neither is read by the program.
NewFade(sink, target, cause) ==
    [sink |-> sink, start |-> sinks[sink].gain, target |-> target, step |-> 0,
     cause |-> cause, sets |-> scenario.sets]

\* The timers of ramps appended to fades: setInterval callbacks fire in the
\* order they were set up.
NewTimers(ramps) == [k \in 1..Len(ramps) |-> Len(fades) + k]

\* A duck target that lowers nothing.
DuckedGainFull(original) == original

\* this.originalVolume * this.vadDuckingFactor
DuckedGain(original) ==
    IF vadDuckingFactor = NaN THEN NaN
    ELSE (original * vadDuckingFactor) \div 1000

\* The ramps onSpeechDetected issues.  fadeVolume only sets its interval up;
\* fadeGain hands the target to linearRampToValueAtTime, which rejects NaN,
\* so no automation is started then.
DuckFades ==
    (IF currentAudio # 0
        THEN <<NewFade(currentAudio, DuckedGain(sinks[currentAudio].gain),
                      "duck")>>
        ELSE <<>>)
    \o (IF demoAudio # 0 /\ DuckedGain(sinks[demoAudio].gain) # NaN
        THEN <<NewFade(demoAudio, DuckedGain(sinks[demoAudio].gain), "duck")>>
        ELSE <<>>)

\* The ramps onSpeechEnded issues.
RestoreFades ==
    (IF currentAudio # 0 /\ originalVolume # NoGain
        THEN <<NewFade(currentAudio, originalVolume, "restore")>> ELSE <<>>)
    \o (IF demoAudio # 0 /\ originalGain # NoGain
        THEN <<NewFade(demoAudio, originalGain, "restore")>> ELSE <<>>)

\* onSpeechDetected without its isVADMuted test.
onSpeechDetectedAgain ==
    /\ isVADMuted' = TRUE
    /\ originalVolume' = IF currentAudio # 0 THEN sinks[currentAudio].gain
                                             ELSE originalVolume
    /\ originalGain' = IF demoAudio # 0 THEN sinks[demoAudio].gain
                                        ELSE originalGain
    /\ fades' = fades \o DuckFades
    /\ timers' = timers \o NewTimers(DuckFades)

onSpeechDetected ==
    IF isVADMuted THEN UNCHANGED duckVars
    ELSE /\ isVADMuted' = TRUE
         /\ originalVolume' = IF currentAudio # 0 THEN sinks[currentAudio].gain
                                                  ELSE originalVolume
         /\ originalGain' = IF demoAudio # 0 THEN sinks[demoAudio].gain
                                             ELSE originalGain
         /\ fades' = fades \o DuckFades
         /\ timers' = timers \o NewTimers(DuckFades)

\* onSpeechEnded without its isVADMuted test.
onSpeechEndedAlways ==
    /\ isVADMuted' = FALSE
    /\ fades' = fades \o RestoreFades
    /\ timers' = timers \o NewTimers(RestoreFades)
    /\ UNCHANGED <<originalVolume, originalGain>>

onSpeechEnded ==
    IF ~isVADMuted THEN UNCHANGED duckVars
    ELSE /\ isVADMuted' = FALSE
         /\ fades' = fades \o RestoreFades
         /\ timers' = timers \o NewTimers(RestoreFades)
         /\ UNCHANGED <<originalVolume, originalGain>>

\* The two handlers when the gain change of the sinks in failing throws
\* (fadeVolume or fadeGain raises): neither handler has a try / catch, so it
\* stops at the first call that throws, after the assignments made so far.
onSpeechDetectedFailing(failing) ==
    IF isVADMuted THEN UNCHANGED duckVars
    ELSE LET first == currentAudio # 0
             firstThrows == first /\ currentAudio \in failing
             second == demoAudio # 0 /\ ~firstThrows
             secondThrows == second /\ demoAudio \in failing
             ramps ==
                 (IF first /\ ~firstThrows
                     THEN <<NewFade(currentAudio,
                                   DuckedGain(sinks[currentAudio].gain),
                                   "duck")>>
                     ELSE <<>>)
                 \o (IF second /\ ~secondThrows
                     THEN <<NewFade(demoAudio,
                                   DuckedGain(sinks[demoAudio].gain), "duck")>>
                     ELSE <<>>)
         IN  /\ isVADMuted' = TRUE
             /\ originalVolume' = IF first THEN sinks[currentAudio].gain
                                           ELSE originalVolume
             /\ originalGain' = IF second THEN sinks[demoAudio].gain
                                          ELSE originalGain
             /\ fades' = fades \o ramps
             /\ timers' = timers \o NewTimers(ramps)

onSpeechEndedFailing(failing) ==
    IF ~isVADMuted THEN UNCHANGED duckVars
    ELSE LET first == currentAudio # 0 /\ originalVolume # NoGain
             firstThrows == first /\ currentAudio \in failing
             second == demoAudio # 0 /\ originalGain # NoGain /\ ~firstThrows
             secondThrows == second /\ demoAudio \in failing
             ramps ==
                 (IF first /\ ~firstThrows
                     THEN <<NewFade(currentAudio, originalVolume, "restore")>>
                     ELSE <<>>)
                 \o (IF second /\ ~secondThrows
                     THEN <<NewFade(demoAudio, originalGain, "restore")>>
                     ELSE <<>>)
         IN  /\ isVADMuted' = FALSE
             /\ fades' = fades \o ramps
             /\ timers' = timers \o NewTimers(ramps)
             /\ UNCHANGED <<originalVolume, originalGain>>

\* emit with the speechEnd listener missing.
EmitStartOnly(event) ==
    IF vadListeners /\ event = "speechStart" THEN onSpeechDetected
    ELSE UNCHANGED duckVars

\* EventEmitter.emit for the two VAD events: the renderer's listeners, when
\* attached, call the AudioSystem synchronously.
Emit(event) ==
    IF vadListeners /\ event = "speechStart" THEN onSpeechDetected
    ELSE IF vadListeners /\ event = "speechEnd" THEN onSpeechEnded
    ELSE UNCHANGED duckVars

---------------------------------------------------------------------------
(* AudioSystem: playback *)

\* playTrack with a preview URL: pause the current element, create a new one
\* at this.volume.
playTrack ==
    /\ Len(sinks) < MaxSinks
    /\ sinks' = Append(
           [i \in 1..Len(sinks) |->
               IF i = currentAudio THEN [sinks[i] EXCEPT !.live = FALSE]
                                   ELSE sinks[i]],
           [kind |-> "element", gain |-> volume, live |-> TRUE])
    /\ currentAudio' = Len(sinks) + 1
    /\ isPlaying' = TRUE
    /\ UNCHANGED <<volume, demoAudio>>

\* playDemoTrack: a new oscillator and gain node at this.volume * 0.1; the
\* previous demoAudio reference is overwritten.
playDemoTrack ==
    /\ Len(sinks) < MaxSinks
    /\ sinks' = Append(sinks,
           [kind |-> "gainNode", gain |-> volume \div 10, live |-> TRUE])
    /\ demoAudio' = Len(sinks) + 1
    /\ isPlaying' = TRUE
    /\ UNCHANGED <<volume, currentAudio>>

stopMusic ==
    /\ sinks' = [i \in 1..Len(sinks) |->
                    IF i = currentAudio \/ i = demoAudio
                        THEN [sinks[i] EXCEPT !.live = FALSE] ELSE sinks[i]]
    /\ currentAudio' = 0
    /\ demoAudio' = 0
    /\ isPlaying' = FALSE
    /\ UNCHANGED volume

Min(a, b) == IF a <= b THEN a ELSE b

\* adjustVolume without its clamp.
adjustVolumeUnclamped(delta) ==
    LET v == volume + delta
    IN  /\ volume' = v
        /\ sinks' = [i \in 1..Len(sinks) |->
                        IF i = currentAudio
                            THEN [sinks[i] EXCEPT !.gain = v]
                        ELSE IF i = demoAudio
                            THEN [sinks[i] EXCEPT !.gain = v \div 10]
                        ELSE sinks[i]]
        /\ UNCHANGED <<isPlaying, currentAudio, demoAudio>>

\* AudioSystem.adjustVolume: the clamped volume is assigned to the sinks held.
adjustVolume(delta) ==
    LET v == Max(0, Min(1000, volume + delta))
    IN  /\ volume' = v
        /\ sinks' = [i \in 1..Len(sinks) |->
                        IF i = currentAudio
                            THEN [sinks[i] EXCEPT !.gain = v]
                        ELSE IF i = demoAudio
                            THEN [sinks[i] EXCEPT !.gain = v \div 10]
                        ELSE sinks[i]]
        /\ UNCHANGED <<isPlaying, currentAudio, demoAudio>>

\* startVolume + (volumeDiff * progress) at a step of a ramp.
FadeValue(fade, step) ==
    fade.start + ((fade.target - fade.start) * step) \div FadeSteps

\* The interval callback with its timer cleared one step early.
fadeIntervalShort ==
    LET k == Head(timers)
        step == fades[k].step + 1
    IN  /\ fades' = [fades EXCEPT ![k].step = step]
        /\ sinks' = [sinks EXCEPT ![fades[k].sink].gain =
                        FadeValue(fades[k], step)]
        /\ timers' = IF step >= FadeSteps - 1 THEN Tail(timers)
                                              ELSE Append(Tail(timers), k)

\* One callback of a ramp's interval timer (for a gain node, the automation
\* sampled at the same instants): the ramp whose turn it is writes its sink,
\* and at its last step writes the target and clears its timer.  With a NaN
\* target the value written is NaN, the assignment to audioElement.volume
\* throws, and the callback ends there, after currentStep++ and before
\* clearInterval; currentStep is followed up to MaxOverrun steps past the
\* last.
fadeInterval ==
    LET k == Head(timers)
        step == fades[k].step + 1
    IN  IF fades[k].target = NaN
        THEN /\ fades' = [fades EXCEPT
                             ![k].step = Min(step, FadeSteps + MaxOverrun)]
             /\ timers' = Append(Tail(timers), k)
             /\ UNCHANGED sinks
        ELSE /\ fades' = [fades EXCEPT ![k].step = step]
             /\ sinks' = [sinks EXCEPT ![fades[k].sink].gain =
                             IF step >= FadeSteps THEN fades[k].target
                             ELSE FadeValue(fades[k], step)]
             /\ timers' = IF step >= FadeSteps THEN Tail(timers)
                                               ELSE Append(Tail(timers), k)

\* The cache keys `${searchQuery.query}-${searchQuery.filter}` that the
\* interpretations produce, and the tracks a search returns, named by the
\* previews they carry: 'preview-hq-mp3', only 'preview-lq-mp3', or neither.
CacheKeys == {"ambient", "rain"}
Tracks == {"hq", "lq", "none"}
NoTrack == "<absent>"

VoiceCommands == {"track", "demo", "stop"}

\* AudioSystem.executeCommand, by what the command turns out to do.
executeCommand(command) ==
    IF command = "track" THEN playTrack
    ELSE IF command = "demo" THEN playDemoTrack
    ELSE stopMusic

---------------------------------------------------------------------------
(* Observation *)

FrameEntry(r, currentTime) ==
    [op |-> "processVAD", t |-> currentTime, samples |-> r.samples,
     inst |-> r.instantEnergy,
     energy |-> r.currentEnergy, threshold |-> r.adaptiveThreshold,
     detected |-> r.detected, event |-> r.event, active |-> r.isSpeechActive]

ForcedEntry ==
    [op |-> "setVADEnabled", t |-> now, samples |-> 0, inst |-> 0,
     energy |-> currentEnergy,
     threshold |-> 0, detected |-> FALSE, event |-> "speechEnd",
     active |-> FALSE]

---------------------------------------------------------------------------
(* The operations *)

Init ==
    /\ now = 1
    /\ frames = 0
    /\ apiKey \in BOOLEAN
    /\ deepgram = FALSE
    /\ isListening = FALSE
    /\ vadEnabled = TRUE
    /\ vadThreshold = DefaultVadThreshold
    /\ currentEnergy = 0
    /\ speechStartTime = Null
    /\ lastSpeechTime = Null
    /\ isSpeechActive = FALSE
    /\ energyHistory = <<>>
    /\ isInitialized = FALSE
    /\ rendererListening = FALSE
    /\ vadListeners = FALSE
    /\ volume = DefaultVolume
    /\ isPlaying = FALSE
    /\ currentAudio = 0
    /\ demoAudio = 0
    /\ isVADMuted = FALSE
    /\ originalVolume = NoGain
    /\ originalGain = NoGain
    /\ vadDuckingFactor = DefaultDuckingFactor
    /\ mainWindow = "hidden"
    /\ toggleMessages = 0
    /\ toggleSent = 0
    /\ awaiting = 0
    /\ connections = 0
    /\ streams = 0
    /\ contexts = 0
    /\ liveTranscription = FALSE
    /\ mediaStream = FALSE
    /\ audioContext = FALSE
    /\ requests = <<>>
    /\ trackCache = [k \in CacheKeys |-> NoTrack]
    /\ freesoundApiKey = FALSE
    /\ sinks = <<>>
    /\ fades = <<>>
    /\ timers = <<>>
    /\ log = <<>>
    /\ scenario = [phase |-> "off", amp |-> 0, k |-> 0, sets |-> 0]

\* VoiceProductivityCompanion.initialize: VoiceProcessor.initialize throws
\* without an API key, and then the VAD listeners are not attached.
initialize ==
    /\ ~isInitialized
    /\ isInitialized' = TRUE
    /\ deepgram' = apiKey
    /\ vadListeners' = apiKey

\* initialize when the main process has no Freesound key to hand over.
Initialize ==
    /\ initialize
    /\ UNCHANGED <<envVars, isListening, vadEnabled, vadThreshold,
                   vadDuckingFactor, requestVars, mainVars, captureVars, currentEnergy,
                   speechStartTime, lastSpeechTime, isSpeechActive,
                   energyHistory, rendererListening, audioVars, log, scenario>>

\* toggleListening while not listening: VoiceProductivityCompanion.startListening
\* and VoiceProcessor.startListening; micGranted is whether getUserMedia
\* resolves.
StartListening(micGranted) ==
    /\ ~rendererListening
    /\ isInitialized
    /\ IF isListening
          THEN rendererListening' = TRUE /\ UNCHANGED isListening
          ELSE IF deepgram /\ micGranted
                  THEN isListening' = TRUE /\ rendererListening' = TRUE
                  ELSE UNCHANGED <<isListening, rendererListening>>
    /\ UNCHANGED <<envVars, deepgram, vadEnabled, vadThreshold,
                   vadDuckingFactor, requestVars, mainVars, captureVars, currentEnergy,
                   speechStartTime, lastSpeechTime, isSpeechActive,
                   energyHistory, isInitialized, vadListeners, audioVars, log,
                   scenario>>

\* VoiceProductivityCompanion.stopListening and VoiceProcessor.stopListening.
stopListening ==
    /\ isListening' = FALSE
    /\ rendererListening' = FALSE

\* toggleListening while listening.
StopListening ==
    /\ rendererListening
    /\ stopListening
    /\ UNCHANGED <<envVars, deepgram, vadEnabled, vadThreshold,
                   vadDuckingFactor, requestVars, mainVars, captureVars, currentEnergy,
                   speechStartTime, lastSpeechTime, isSpeechActive,
                   energyHistory, isInitialized, vadListeners, audioVars, log,
                   scenario>>

\* processVAD without its first line.
processVADAlways(audioData, currentTime) ==
    LET r == VADStep(audioData, currentTime)
    IN  /\ currentEnergy' = r.currentEnergy
        /\ energyHistory' = r.energyHistory
        /\ speechStartTime' = r.speechStartTime
        /\ lastSpeechTime' = r.lastSpeechTime
        /\ isSpeechActive' = r.isSpeechActive
        /\ Emit(r.event)
        /\ log' = Append(log, FrameEntry(r, currentTime))

\* VoiceProcessor.processVAD on a frame read at currentTime.
processVAD(audioData, currentTime) ==
    IF ~vadEnabled
    THEN UNCHANGED <<currentEnergy, energyHistory, speechStartTime,
                     lastSpeechTime, isSpeechActive, duckVars, log>>
    ELSE LET r == VADStep(audioData, currentTime)
         IN  /\ currentEnergy' = r.currentEnergy
             /\ energyHistory' = r.energyHistory
             /\ speechStartTime' = r.speechStartTime
             /\ lastSpeechTime' = r.lastSpeechTime
             /\ isSpeechActive' = r.isSpeechActive
             /\ Emit(r.event)
             /\ log' = Append(log, FrameEntry(r, currentTime))

\* What processVAD returns.
processVADReturn(audioData, currentTime) ==
    IF ~vadEnabled THEN FALSE
                   ELSE VADStep(audioData, currentTime).isSpeechActive

\* processor.onaudioprocess: one captured frame, gap ms after the last one.
AudioProcess(audioData, gap) ==
    /\ isListening
    /\ frames' = frames + 1
    /\ now' = now + gap
    /\ processVAD(audioData, now + gap)
    /\ UNCHANGED <<apiKey, deepgram, isListening, vadEnabled, vadThreshold,
                   vadDuckingFactor, requestVars, mainVars, captureVars,
                   rendererVars, playbackVars>>

\* setVADEnabled without its emit.
setVADEnabledSilently(enabled) ==
    /\ vadEnabled' = enabled
    /\ IF ~enabled /\ isSpeechActive
          THEN /\ isSpeechActive' = FALSE
               /\ speechStartTime' = Null
               /\ UNCHANGED <<duckVars, log>>
          ELSE UNCHANGED <<isSpeechActive, speechStartTime, duckVars, log>>

\* setVADEnabled emitting speechEnd on every disable.
setVADEnabledAlways(enabled) ==
    /\ vadEnabled' = enabled
    /\ IF ~enabled
          THEN /\ isSpeechActive' = FALSE
               /\ speechStartTime' = Null
               /\ Emit("speechEnd")
               /\ log' = Append(log, ForcedEntry)
          ELSE UNCHANGED <<isSpeechActive, speechStartTime, duckVars, log>>

\* VoiceProcessor.setVADEnabled
setVADEnabled(enabled) ==
    /\ vadEnabled' = enabled
    /\ IF ~enabled /\ isSpeechActive
          THEN /\ isSpeechActive' = FALSE
               /\ speechStartTime' = Null
               /\ Emit("speechEnd")
               /\ log' = Append(log, ForcedEntry)
          ELSE UNCHANGED <<isSpeechActive, speechStartTime, duckVars, log>>

SetVADEnabled(enabled) ==
    /\ setVADEnabled(enabled)
    /\ UNCHANGED <<envVars, deepgram, isListening, vadThreshold,
                   vadDuckingFactor, requestVars, mainVars, captureVars, currentEnergy,
                   lastSpeechTime, energyHistory, rendererVars, playbackVars,
                   scenario>>

\* VoiceProductivityCompanion.handleVoiceCommand on a transcription: run the
\* command, then stop listening.
HandleVoiceCommand(command) ==
    /\ isListening
    /\ executeCommand(command)
    /\ stopListening
    /\ UNCHANGED <<envVars, deepgram, vadEnabled, vadThreshold,
                   vadDuckingFactor, requestVars, mainVars, captureVars, currentEnergy,
                   speechStartTime, lastSpeechTime, isSpeechActive,
                   energyHistory, isInitialized, vadListeners, duckVars, log,
                   scenario>>

\* The AudioSystem driven directly through one speech episode: its handlers
\* called in any order, with the ramps' timer callbacks between them.
\* scenario.phase is "off" before the call of onSpeechDetected that ducks,
\* "ducked" until the call of onSpeechEnded that restores, "restored" after
\* it; scenario.k counts the calls of onSpeechDetected, up to 2, and
\* scenario.sets the calls of adjustVolume.
duckEnv == <<envVars, vpVars, rendererVars, vadDuckingFactor, requestVars, mainVars,
             captureVars, log>>

OnSpeechDetected ==
    /\ scenario.phase # "restored"
    /\ onSpeechDetected
    /\ scenario' = [scenario EXCEPT !.phase = "ducked", !.k = Min(@ + 1, 2)]
    /\ UNCHANGED <<duckEnv, playbackVars>>

OnSpeechEnded ==
    /\ onSpeechEnded
    /\ scenario' = IF isVADMuted THEN [scenario EXCEPT !.phase = "restored"]
                                 ELSE scenario
    /\ UNCHANGED <<duckEnv, playbackVars>>

ExecuteCommand(command) ==
    /\ executeCommand(command)
    /\ UNCHANGED <<duckEnv, duckVars, scenario>>

AdjustVolume(delta) ==
    /\ scenario.sets < MaxSets
    /\ adjustVolume(delta)
    /\ scenario' = [scenario EXCEPT !.sets = @ + 1]
    /\ UNCHANGED <<duckEnv, duckVars>>

FadeStep ==
    /\ timers # <<>>
    /\ fadeInterval
    /\ UNCHANGED <<duckEnv, volume, isPlaying, currentAudio, demoAudio,
                   isVADMuted, originalVolume, originalGain, scenario>>

DuckNext ==
    \/ OnSpeechDetected
    \/ OnSpeechEnded
    \/ \E command \in VoiceCommands : ExecuteCommand(command)
    \/ \E delta \in {VolumeDelta, 0 - VolumeDelta} : AdjustVolume(delta)
    \/ FadeStep

DuckSpec == Init /\ [][DuckNext]_vars

\* One speech episode over music that was set up before it: the commands
\* and volume changes all come before onSpeechDetected.
SetUp ==
    /\ scenario.phase = "off"
    /\ \/ \E command \in VoiceCommands : ExecuteCommand(command)
       \/ \E delta \in {VolumeDelta, 0 - VolumeDelta} : AdjustVolume(delta)

EpisodeNext ==
    \/ SetUp
    \/ OnSpeechDetected
    \/ OnSpeechEnded
    \/ FadeStep

EpisodeSpec == Init /\ [][EpisodeNext]_vars

\* The volume_up / volume_down commands, any number of them, among the
\* commands that start and stop music.
VolumeCommand(delta) ==
    /\ adjustVolume(delta)
    /\ UNCHANGED <<duckEnv, duckVars, scenario>>

VolumeNext ==
    \/ \E delta \in {VolumeDelta, 0 - VolumeDelta} : VolumeCommand(delta)
    \/ \E command \in VoiceCommands : ExecuteCommand(command)

VolumeSpec == Init /\ [][VolumeNext]_vars

\* One speech episode in which sinks may throw.
FailingSinks == SUBSET ({currentAudio, demoAudio} \ {0})

OnSpeechDetectedFailing(failing) ==
    /\ scenario.phase # "restored"
    /\ onSpeechDetectedFailing(failing)
    /\ scenario' = [scenario EXCEPT !.phase = "ducked", !.k = Min(@ + 1, 2)]
    /\ UNCHANGED <<duckEnv, playbackVars>>

OnSpeechEndedFailing(failing) ==
    /\ onSpeechEndedFailing(failing)
    /\ scenario' = IF isVADMuted THEN [scenario EXCEPT !.phase = "restored"]
                                 ELSE scenario
    /\ UNCHANGED <<duckEnv, playbackVars>>

FailureNext ==
    \/ SetUp
    \/ \E failing \in FailingSinks : OnSpeechDetectedFailing(failing)
    \/ \E failing \in FailingSinks : OnSpeechEndedFailing(failing)
    \/ FadeStep

FailureSpec == Init /\ [][FailureNext]_vars

\* Frames of a given sample magnitude.
Frame(amplitude) == <<amplitude, 0 - amplitude>>

\* The audio callbacks of one run: at most limit of them, with samples of the
\* given magnitudes.
Capture(limit, amplitudes) ==
    /\ frames < limit
    /\ \E amplitude \in amplitudes, gap \in FrameGaps :
           AudioProcess(Frame(amplitude), gap)
    /\ UNCHANGED scenario

Next ==
    \/ Initialize
    \/ \E micGranted \in BOOLEAN : StartListening(micGranted)
    \/ StopListening
    \/ Capture(MaxFrames, {0, 5000})
    \/ \E enabled \in BOOLEAN : SetVADEnabled(enabled)
    \/ \E command \in VoiceCommands : HandleVoiceCommand(command)

Spec == Init /\ [][Next]_vars

\* VoiceProcessor.setVADThreshold
setVADThreshold(threshold) ==
    vadThreshold' = MathMax(MinVadThreshold, MathMin(MaxVadThreshold, threshold))

\* AudioSystem.setVADDuckingFactor
setVADDuckingFactor(factor) ==
    vadDuckingFactor' =
        MathMax(MinDuckingFactor, MathMin(MaxDuckingFactor, factor))

\* What the user can leave in a prompt: Cancel stands for the null that
\* prompt returns when it is dismissed, the others are the text typed.
Cancel == "<null>"
PromptTexts == {"", "abc", "0", "0.05", "50", "500"}

\* isNaN(text): Number(text) is NaN.  Number("") is 0.
IsNaNText(text) == text = "abc"

\* parseFloat(text), in units of 1/10000.  parseFloat("") is NaN.
ParseFloat(text) ==
    CASE text = "0" -> 0
      [] text = "0.05" -> 500
      [] text = "50" -> 500000
      [] text = "500" -> 5000000
      [] OTHER -> NaN

\* parseFloat(newDucking) / 100, in thousandths.
DuckingOf(parsed) == IF parsed = NaN THEN NaN ELSE parsed \div 1000

\* VoiceProductivityCompanion.showVADSettings, with what the two prompts
\* return.
showVADSettings(newThreshold, newDucking) ==
    IF newThreshold # Cancel /\ ~IsNaNText(newThreshold)
    THEN /\ setVADThreshold(ParseFloat(newThreshold))
         /\ IF newDucking # Cancel /\ ~IsNaNText(newDucking)
               THEN setVADDuckingFactor(DuckingOf(ParseFloat(newDucking)))
               ELSE UNCHANGED vadDuckingFactor
    ELSE UNCHANGED <<vadThreshold, vadDuckingFactor>>

ShowVADSettings(newThreshold, newDucking) ==
    /\ showVADSettings(newThreshold, newDucking)
    /\ UNCHANGED <<envVars, deepgram, isListening, vadEnabled, currentEnergy,
                   speechStartTime, lastSpeechTime, isSpeechActive,
                   energyHistory, rendererVars, audioVars, mainVars,
                   captureVars, requestVars, log, scenario>>

\* processVAD called directly, on frames of any length.
AnyFrames == {<<>>, Frame(0), Frame(5000)}

ProcessVAD(audioData, gap) ==
    /\ frames < MaxDetectorFrames
    /\ frames' = frames + 1
    /\ now' = now + gap
    /\ processVAD(audioData, now + gap)
    /\ UNCHANGED <<apiKey, deepgram, isListening, vadEnabled, vadThreshold,
                   vadDuckingFactor, requestVars, mainVars, captureVars,
                   rendererVars, playbackVars, scenario>>

FrameNext == \E audioData \in AnyFrames, gap \in FrameGaps :
                 ProcessVAD(audioData, gap)

FrameSpec == Init /\ [][FrameNext]_vars

\* VoiceProductivityCompanion.startListening, with the call of
\* VoiceProcessor.startListening run to its end.
startListening(micGranted) ==
    IF ~isInitialized THEN UNCHANGED <<isListening, rendererListening>>
    ELSE IF isListening
        THEN rendererListening' = TRUE /\ UNCHANGED isListening
    ELSE IF deepgram /\ micGranted
        THEN isListening' = TRUE /\ rendererListening' = TRUE
    ELSE UNCHANGED <<isListening, rendererListening>>

\* VoiceProductivityCompanion.toggleListening
toggleListening(micGranted) ==
    IF rendererListening THEN stopListening ELSE startListening(micGranted)

\* The CommandOrControl+M shortcut sending the message whatever the
\* window's state.
PressCommandMAlways ==
    /\ toggleSent < MaxToggles
    /\ mainWindow' = "visible"
    /\ toggleMessages' = toggleMessages + 1
    /\ toggleSent' = toggleSent + 1
    /\ UNCHANGED <<envVars, vpVars, rendererVars, audioVars, vadDuckingFactor, requestVars,
                   captureVars, log, scenario>>

\* main.js: the callback of the CommandOrControl+M global shortcut.
PressCommandM ==
    /\ mainWindow = "visible" => toggleSent < MaxToggles
    /\ IF mainWindow # "visible"
          THEN /\ mainWindow' = "visible"
               /\ UNCHANGED <<toggleMessages, toggleSent>>
          ELSE /\ toggleMessages' = toggleMessages + 1
               /\ toggleSent' = toggleSent + 1
               /\ UNCHANGED mainWindow
    /\ UNCHANGED <<envVars, vpVars, rendererVars, audioVars, vadDuckingFactor, requestVars,
                   captureVars, log, scenario>>

\* main.js: the callback of the Escape global shortcut.
PressEscape ==
    /\ mainWindow' = IF mainWindow = "visible" THEN "hidden" ELSE mainWindow
    /\ UNCHANGED <<envVars, vpVars, rendererVars, audioVars, vadDuckingFactor, requestVars,
                   toggleMessages, toggleSent, captureVars, log, scenario>>

\* The renderer receiving a toggle-microphone message.
ToggleMicrophone(micGranted) ==
    /\ toggleMessages > 0
    /\ toggleMessages' = toggleMessages - 1
    /\ toggleListening(micGranted)
    /\ UNCHANGED <<envVars, deepgram, vadEnabled, vadThreshold, currentEnergy,
                   speechStartTime, lastSpeechTime, isSpeechActive,
                   energyHistory, isInitialized, vadListeners, audioVars,
                   vadDuckingFactor, requestVars, mainWindow, toggleSent, captureVars, log,
                   scenario>>

ShortcutNext ==
    \/ Initialize
    \/ PressCommandM
    \/ PressEscape
    \/ \E micGranted \in BOOLEAN : ToggleMicrophone(micGranted)

ShortcutSpec == Init /\ [][ShortcutNext]_vars

\* Starting and stopping capture with the resources it holds, one step per
\* stretch of code between awaits.
\*
\* toggleListening while the renderer is not listening, up to the await of
\* getUserMedia in VoiceProcessor.startListening: the live transcription
\* connection is created before the await, and isListening is only set
\* after it.
BeginListening ==
    /\ ~rendererListening
    /\ isInitialized
    /\ connections < MaxStarts
    /\ IF isListening
          THEN /\ rendererListening' = TRUE
               /\ UNCHANGED captureVars
          ELSE IF ~deepgram
          THEN UNCHANGED <<rendererListening, captureVars>>
          ELSE /\ connections' = connections + 1
               /\ liveTranscription' = TRUE
               /\ awaiting' = awaiting + 1
               /\ UNCHANGED <<rendererListening, streams, contexts,
                              mediaStream, audioContext>>
    /\ UNCHANGED <<envVars, deepgram, isListening, vadEnabled, vadThreshold,
                   currentEnergy, speechStartTime, lastSpeechTime,
                   isSpeechActive, energyHistory, isInitialized, vadListeners,
                   audioVars, vadDuckingFactor, requestVars, mainVars, log, scenario>>

\* getUserMedia settles for one suspended call.  Resolved: the stream and
\* the audio context are created and stored, isListening is set, and the
\* renderer sets its own flag.  Rejected: the error is rethrown and the
\* renderer reports it; nothing is released.
ResumeListening(micGranted) ==
    /\ awaiting > 0
    /\ awaiting' = awaiting - 1
    /\ IF micGranted
          THEN /\ streams' = streams + 1
               /\ contexts' = contexts + 1
               /\ mediaStream' = TRUE
               /\ audioContext' = TRUE
               /\ isListening' = TRUE
               /\ rendererListening' = TRUE
          ELSE UNCHANGED <<streams, contexts, mediaStream, audioContext,
                           isListening, rendererListening>>
    /\ UNCHANGED <<envVars, deepgram, vadEnabled, vadThreshold, currentEnergy,
                   speechStartTime, lastSpeechTime, isSpeechActive,
                   energyHistory, isInitialized, vadListeners, audioVars,
                   vadDuckingFactor, requestVars, mainVars, connections, liveTranscription,
                   log, scenario>>

\* toggleListening while the renderer is listening: VoiceProcessor.
\* stopListening releases what its fields refer to, if isListening is set.
EndListening ==
    /\ rendererListening
    /\ stopListening
    /\ IF ~isListening THEN UNCHANGED <<connections, streams, contexts,
                                        liveTranscription, mediaStream,
                                        audioContext>>
          ELSE /\ contexts' = IF audioContext THEN contexts - 1 ELSE contexts
               /\ audioContext' = FALSE
               /\ streams' = IF mediaStream THEN streams - 1 ELSE streams
               /\ mediaStream' = FALSE
               /\ connections' = IF liveTranscription THEN connections - 1
                                                      ELSE connections
               /\ liveTranscription' = FALSE
    /\ UNCHANGED <<envVars, deepgram, vadEnabled, vadThreshold, currentEnergy,
                   speechStartTime, lastSpeechTime, isSpeechActive,
                   energyHistory, isInitialized, vadListeners, audioVars,
                   vadDuckingFactor, requestVars, mainVars, awaiting, log, scenario>>

CaptureNext ==
    \/ Initialize
    \/ BeginListening
    \/ \E micGranted \in BOOLEAN : ResumeListening(micGranted)
    \/ EndListening

CaptureSpec == Init /\ [][CaptureNext]_vars

\* The settings dialog between frames.
SettingsNext ==
    \/ \E newThreshold, newDucking \in PromptTexts \cup {Cancel} :
           ShowVADSettings(newThreshold, newDucking)
    \/ (frames < MaxFrames /\ FrameNext)

SettingsSpec == Init /\ [][SettingsNext]_vars

\* One speech episode after the settings dialog was used.
RampNext ==
    \/ /\ scenario.phase = "off"
       /\ \E newThreshold, newDucking \in PromptTexts \cup {Cancel} :
              ShowVADSettings(newThreshold, newDucking)
    \/ EpisodeNext

RampSpec == Init /\ [][RampNext]_vars

\* The detector alone: capture is started once and never stopped.
DetectorNext ==
    \/ Initialize
    \/ \E micGranted \in BOOLEAN : StartListening(micGranted)
    \/ Capture(MaxDetectorFrames, Amplitudes)
    \/ \E enabled \in BOOLEAN : SetVADEnabled(enabled)

DetectorSpec == Init /\ [][DetectorNext]_vars

\* A speaker who, after some silence, speaks at one steady level; the
\* callbacks arrive at the ScriptProcessor's period.
SteadyFrame ==
    /\ frames < MaxSteadyFrames
    /\ \/ /\ scenario.phase = "off"
          /\ AudioProcess(Frame(0), FramePeriod)
          /\ UNCHANGED scenario
       \/ /\ scenario.phase = "off"
          /\ \E amplitude \in SpeechAmplitudes :
                /\ AudioProcess(Frame(amplitude), FramePeriod)
                /\ scenario' = [scenario EXCEPT !.phase = "speech", !.amp = amplitude, !.k = 1]
       \/ /\ scenario.phase = "speech"
          /\ AudioProcess(Frame(scenario.amp), FramePeriod)
          /\ scenario' = [scenario EXCEPT !.k = @ + 1]

SteadyNext ==
    \/ Initialize
    \/ \E micGranted \in BOOLEAN : StartListening(micGranted)
    \/ SteadyFrame

SteadySpec == Init /\ [][SteadyNext]_vars

\* The scripted scenario: silent frames, then the frames that hold the
\* smoothed energy at Script.level (the first lifts it there from 0), then
\* the frames of energy Script.low.  k is the number of the last frame
\* delivered within its phase, from 0.
ScenarioFrame ==
    \/ /\ scenario.phase = "off"
       /\ scenario.k < Script.silent
       /\ AudioProcess(Frame(0), Script.gap)
       /\ scenario' = [scenario EXCEPT !.k = @ + 1]
    \/ /\ scenario.phase = "off"
       /\ AudioProcess(Frame(Script.kick), Script.gap)
       /\ scenario' = [scenario EXCEPT !.phase = "steady", !.amp = Script.level, !.k = 0]
    \/ /\ scenario.phase = "steady"
       /\ scenario.k + 1 < Script.steady
       /\ AudioProcess(Frame(Script.level), Script.gap)
       /\ scenario' = [scenario EXCEPT !.k = @ + 1]
    \/ /\ scenario.phase = "steady"
       /\ scenario.k + 1 = Script.steady
       /\ AudioProcess(Frame(Script.low), Script.gap)
       /\ scenario' = [scenario EXCEPT !.phase = "drop", !.amp = Script.low, !.k = 0]
    \/ /\ scenario.phase = "drop"
       /\ scenario.k + 1 < Script.drop
       /\ AudioProcess(Frame(Script.low), Script.gap)
       /\ scenario' = [scenario EXCEPT !.k = @ + 1]

ScenarioNext ==
    \/ Initialize
    \/ \E micGranted \in BOOLEAN : StartListening(micGranted)
    \/ ScenarioFrame

ScenarioSpec == Init /\ [][ScenarioNext]_vars

---------------------------------------------------------------------------
(* Reading the log *)

Entries == 1..Len(log)

IsFrame(i) == log[i].op = "processVAD"

\* Entries j..i are frames that processVAD classified as speech.
DetectedRun(j, i) == \A k \in j..i : IsFrame(k) /\ log[k].detected

\* The first entry of the uninterrupted run of speech frames that ends at
\* entry i (itself a speech frame).
RunStart(i) ==
    CHOOSE j \in 1..i :
        DetectedRun(j, i) /\ (j = 1 \/ ~DetectedRun(j - 1, i))

HasSpeechUpTo(i) == \E j \in 1..i : IsFrame(j) /\ log[j].detected

\* The time of the most recent speech frame among entries 1..i.
LastSpeechAt(i) ==
    LET j == CHOOSE j \in 1..i :
                 /\ IsFrame(j) /\ log[j].detected
                 /\ \A k \in (j + 1)..i : ~(IsFrame(k) /\ log[k].detected)
    IN  log[j].t

\* Speech was active when entry i was about to be processed.
ActiveBefore(i) == i > 1 /\ log[i - 1].active

---------------------------------------------------------------------------
(* C2 *)

\* C2: once speechStart has been emitted, as long as every later frame given
\* to processVAD has one and the same instantaneous energy above
\* vadThreshold, processVAD emits no speechEnd.
C2_SteadySpeechKeepsMusicLowered ==
    \A i \in Entries : \A j \in Entries :
        ( /\ i < j
          /\ log[i].event = "speechStart"
          /\ \A k \in (i + 1)..j :
                /\ IsFrame(k)
                /\ log[k].inst = log[i + 1].inst
                /\ log[k].inst > vadThreshold )
        => log[j].event # "speechEnd"

---------------------------------------------------------------------------
(* C3 *)

AllFramesBelowThreshold ==
    \A i \in Entries : IsFrame(i) => log[i].inst < vadThreshold

\* C3: from a fresh VoiceProcessor, while every frame processed has had an
\* instantaneous energy below vadThreshold, the detector is Silent:
\* speechStartTime is null, isSpeechActive is false and no event was emitted.
C3_QuietInputStaysSilent ==
    AllFramesBelowThreshold =>
        /\ speechStartTime = Null
        /\ ~isSpeechActive
        /\ \A i \in Entries : log[i].event = "none" /\ ~log[i].detected

\* Three frames or more, all below the threshold and not all silent.
C3_Witness ==
    /\ AllFramesBelowThreshold
    /\ Len(log) >= 3
    /\ currentEnergy > 0
    /\ \E i \in Entries : log[i].inst = 0

---------------------------------------------------------------------------
(* C4 *)

\* C4: a speech episode shorter than vadMinSpeechDuration emits nothing and
\* returns the detector to Silent: after a frame at or below the threshold
\* that leaves speech inactive, speechStartTime is null; hence a speechStart
\* is never emitted by the first speech frame after such a frame.
C4_ShortEpisodeReturnsToSilent ==
    /\ ( /\ Len(log) > 0
         /\ IsFrame(Len(log))
         /\ ~log[Len(log)].detected
         /\ ~log[Len(log)].active )
       => speechStartTime = Null
    /\ \A i \in Entries :
          ( /\ i > 1
            /\ IsFrame(i - 1)
            /\ ~log[i - 1].detected
            /\ ~log[i - 1].active )
          => log[i].event # "speechStart"

---------------------------------------------------------------------------
(* C5 *)

\* C5: a speechStart is emitted only by a frame at which the current
\* uninterrupted run of above-threshold frames has lasted at least
\* vadMinSpeechDuration, and once such a run has lasted that long speech is
\* active, the run having emitted at most one speechStart.
C5_StartAfterMinSpeechDuration ==
    \A i \in Entries :
        /\ log[i].event = "speechStart" =>
              log[i].t - log[RunStart(i)].t >= vadMinSpeechDuration
        /\ ( /\ IsFrame(i)
             /\ log[i].detected
             /\ log[i].t - log[RunStart(i)].t >= vadMinSpeechDuration )
           => /\ log[i].active
              /\ Cardinality({k \in RunStart(i)..i :
                                  log[k].event = "speechStart"}) <= 1

---------------------------------------------------------------------------
(* C6 *)

EventsOf(event) == {i \in Entries : log[i].event = event}

\* C6: in the scripted scenario (vadThreshold 0.01, frames every 10 ms,
\* smoothed energy held at 0.05 for 500 ms, then energy 0.001 for 1200 ms),
\* speechStart is emitted at frame 30 of the steady phase (300 ms) and no
\* earlier, and speechEnd has been emitted once the low phase has lasted
\* 1000 ms.
C6_ScenarioStartsAtFrame30 ==
    /\ (scenario.phase = "steady" /\ scenario.k < 30) =>
           EventsOf("speechStart") = {}
    /\ (scenario.phase = "steady" /\ scenario.k = 30) =>
           /\ log[Len(log)].event = "speechStart"
           /\ log[Len(log)].energy = Script.level
    /\ (scenario.phase = "drop" /\ scenario.k * Script.gap >= 1000) =>
           Cardinality(EventsOf("speechEnd")) = 1

---------------------------------------------------------------------------
(* C7 *)

\* C7: while speech is active, a frame above the threshold emits nothing and
\* leaves speech active (no second speechStart, also right after a dip), and
\* a frame at or below the threshold that comes less than vadSilenceTimeout
\* after the last speech frame emits nothing and leaves speech active.
C7_DipIsSilentToObservers ==
    \A i \in Entries :
        (IsFrame(i) /\ ActiveBefore(i)) =>
            /\ log[i].detected =>
                  (log[i].event = "none" /\ log[i].active)
            /\ ( /\ ~log[i].detected
                 /\ log[i].t - LastSpeechAt(i - 1) < vadSilenceTimeout )
               => (log[i].event = "none" /\ log[i].active)

\* speechStart, then a dip, then speech again: still active, nothing emitted.
C7_Witness ==
    \E i \in Entries :
        /\ i > 2
        /\ IsFrame(i) /\ log[i].detected /\ log[i].active
        /\ log[i].event = "none"
        /\ IsFrame(i - 1) /\ ~log[i - 1].detected /\ log[i - 1].active
        /\ log[i - 2].active
        /\ isSpeechActive

---------------------------------------------------------------------------
(* C8 *)

\* C8: processVAD emits speechEnd only at a frame at or below the threshold,
\* while speech is active, whose timestamp is at least vadSilenceTimeout after
\* the most recent above-threshold frame; it emits it at the first such frame
\* (a frame that meets this always emits it), and lastSpeechTime is the time
\* of the most recent above-threshold frame; two speechEnd events always have
\* a speechStart between them.
C8_SpeechEndAtSilenceTimeout ==
    /\ \A i \in Entries :
          IsFrame(i) =>
             ( log[i].event = "speechEnd"
               <=> ( /\ ActiveBefore(i)
                     /\ ~log[i].detected
                     /\ log[i].t - LastSpeechAt(i - 1) >= vadSilenceTimeout ) )
    /\ (Len(log) > 0 /\ HasSpeechUpTo(Len(log))) =>
           lastSpeechTime = LastSpeechAt(Len(log))
    /\ \A i \in Entries : \A j \in Entries :
          (i < j /\ log[i].event = "speechEnd" /\ log[j].event = "speechEnd")
          => \E k \in (i + 1)..(j - 1) : log[k].event = "speechStart"

\* A dip that did not end speech, followed by the frame that did.
C8_Witness ==
    \E i \in Entries :
        /\ i > 1
        /\ IsFrame(i) /\ log[i].event = "speechEnd"
        /\ IsFrame(i - 1) /\ ~log[i - 1].detected /\ log[i - 1].active
        /\ i = Len(log) /\ ~isSpeechActive /\ speechStartTime = Null

---------------------------------------------------------------------------
(* C9 *)

\* The sinks the AudioSystem holds.
HeldSinks == {currentAudio, demoAudio} \ {0}

\* The last ramp issued on a sink, 0 when there is none.
LastFadeOf(sink) ==
    LET on == {k \in 1..Len(fades) : fades[k].sink = sink}
    IN  IF on = {} THEN 0 ELSE CHOOSE k \in on : \A other \in on : other <= k

\* A held sink whose last ramp lowered it is ducked.
IsDucked(sink) ==
    /\ sink \in HeldSinks
    /\ LastFadeOf(sink) # 0
    /\ fades[LastFadeOf(sink)].target < fades[LastFadeOf(sink)].start

---------------------------------------------------------------------------
(* C10 *)

\* C10: re-enabling VAD after it was disabled leaves speechStartTime and
\* lastSpeechTime null and emits nothing, from any detector state.
C10_ReenableResetsTimers ==
    [][ (~vadEnabled /\ SetVADEnabled(TRUE)) =>
           /\ speechStartTime' = Null
           /\ lastSpeechTime' = Null
           /\ log' = log
           /\ fades' = fades ]_vars

---------------------------------------------------------------------------
(* C1 *)

\* C1: a ducked state is never leaked: once capture has stopped, after which
\* no frame reaches processVAD, the music is not left ducked (isVADMuted has
\* returned to false).
C1_NoLeakedDuck == ~isListening => ~isVADMuted

---------------------------------------------------------------------------
(* C11 *)

\* C11: every capture session starts from a clean detector: the step that
\* starts listening leaves isSpeechActive false, speechStartTime and
\* lastSpeechTime null, currentEnergy 0 and energyHistory empty, in whatever
\* state the previous session ended.
C11_SessionStartsClean ==
    [][ (~isListening /\ isListening') =>
           /\ ~isSpeechActive'
           /\ speechStartTime' = Null
           /\ lastSpeechTime' = Null
           /\ currentEnergy' = 0
           /\ energyHistory' = <<>> ]_vars

---------------------------------------------------------------------------
(* C12 *)

\* The snapshot a ramp's sink is restored from.
SnapshotOf(sink) ==
    IF sinks[sink].kind = "element" THEN originalVolume ELSE originalGain

\* C12: a call of onSpeechDetected while isVADMuted is true changes no
\* snapshot, issues no ramp and writes no gain; hence the snapshot of a ducked
\* sink is the gain the sink had when the first call lowered it, whatever the
\* number of calls that followed and however far the ramp had got.
C12_DuckingIsIdempotent ==
    /\ [][ (isVADMuted /\ OnSpeechDetected) =>
              /\ isVADMuted'
              /\ originalVolume' = originalVolume
              /\ originalGain' = originalGain
              /\ fades' = fades
              /\ timers' = timers
              /\ sinks' = sinks ]_vars
    /\ [](\A k \in 1..Len(fades) :
             fades[k].cause = "duck" =>
                SnapshotOf(fades[k].sink) = fades[k].start)

\* onSpeechDetected was called again while the track's duck ramp was running.
C12_Witness ==
    /\ scenario.k = 2
    /\ isVADMuted
    /\ currentAudio # 0
    /\ \E k \in 1..Len(fades) :
          /\ fades[k].sink = currentAudio
          /\ fades[k].cause = "duck"
          /\ fades[k].step > 0 /\ fades[k].step < FadeSteps
          /\ sinks[currentAudio].gain < originalVolume
          /\ originalVolume = fades[k].start

---------------------------------------------------------------------------
(* C13 *)

\* The ramps issued on a sink by a handler.
RampsOf(sink, cause) ==
    {k \in 1..Len(fades) : fades[k].sink = sink /\ fades[k].cause = cause}

\* No ramp on the sink has a step left to run.
Settled(sink) == \A i \in 1..Len(timers) : fades[timers[i]].sink # sink

\* C13: when a sink was lowered by onSpeechDetected and raised again by
\* onSpeechEnded, with no adjustVolume since it was lowered, then once every
\* ramp on it has run all its steps its gain is exactly the gain it had when
\* onSpeechDetected was called, whether the restore ramp was issued after
\* the duck ramp had finished or while it was running.
C13_RestorationRoundTrip ==
    \A sink \in 1..Len(sinks) :
        \A d \in RampsOf(sink, "duck") :
            ( /\ \E r \in RampsOf(sink, "restore") : r > d
              /\ fades[d].sets = scenario.sets
              /\ Settled(sink) )
            => sinks[sink].gain = fades[d].start

\* A track restored by a ramp that was issued while the duck ramp was running.
C13_Witness ==
    /\ currentAudio # 0
    /\ Settled(currentAudio)
    /\ \E d \in RampsOf(currentAudio, "duck") :
          \E r \in RampsOf(currentAudio, "restore") :
             /\ r > d
             /\ fades[r].start > fades[d].target
             /\ fades[r].start < fades[d].start
             /\ fades[r].step = FadeSteps
             /\ fades[d].start > 0
             /\ sinks[currentAudio].gain = fades[d].start

---------------------------------------------------------------------------
(* C14 *)

\* The gain a sink is expected to be lowered to.
TimesDuckingFactor(gain) == (gain * vadDuckingFactor) \div 1000

\* C14: the call of onSpeechDetected that ducks snapshots the gain of every
\* sink held (currentAudio, the demo gain node) and issues on it a ramp from
\* that gain to that gain times vadDuckingFactor; once the duck ramp has run
\* all its steps, with no later ramp and no adjustVolume, the sink's gain is
\* the gain before the duck times vadDuckingFactor.
C14_DuckToFactorOfGain ==
    /\ [][ (~isVADMuted /\ OnSpeechDetected) =>
              /\ isVADMuted'
              /\ \A sink \in HeldSinks :
                    /\ SnapshotOf(sink)' = sinks[sink].gain
                    /\ \E k \in (Len(fades) + 1)..Len(fades') :
                          /\ fades'[k].sink = sink
                          /\ fades'[k].start = sinks[sink].gain
                          /\ fades'[k].target =
                                 TimesDuckingFactor(sinks[sink].gain)
                          /\ \E i \in 1..Len(timers') : timers'[i] = k ]_vars
    /\ [](\A sink \in 1..Len(sinks) :
             \A d \in RampsOf(sink, "duck") :
                 ( /\ LastFadeOf(sink) = d
                   /\ fades[d].sets = scenario.sets
                   /\ Settled(sink) )
                 => sinks[sink].gain = TimesDuckingFactor(fades[d].start))

\* A track and a demo tone, both lowered to a fifth of their gains (and a
\* gain of 0.8 has the duck target 0.16).
C14_Witness ==
    /\ DuckedGain(800) = 160
    /\ isVADMuted
    /\ currentAudio # 0 /\ demoAudio # 0
    /\ timers = <<>>
    /\ originalVolume = 500 /\ sinks[currentAudio].gain = 100
    /\ originalGain = 50 /\ sinks[demoAudio].gain = 10
    /\ RampsOf(currentAudio, "duck") # {}
    /\ RampsOf(demoAudio, "duck") # {}

---------------------------------------------------------------------------
(* C15 *)

\* The gain a sink has when it is not ducked: this.volume for an Audio
\* element, this.volume * 0.1 for a demo gain node.
NormalGain(sink) ==
    IF sinks[sink].kind = "element" THEN volume ELSE volume \div 10

\* C15: a sink attached by playTrack or playDemoTrack while isVADMuted is
\* true starts at its normal gain times vadDuckingFactor, not at full volume,
\* and the onSpeechEnded that follows ramps the sinks held to their own normal
\* gains.
C15_NewSinkInheritsDuck ==
    [][ /\ ( /\ isVADMuted
             /\ \E command \in {"track", "demo"} : ExecuteCommand(command) )
           => sinks'[Len(sinks')].gain =
                  TimesDuckingFactor(IF sinks'[Len(sinks')].kind = "element"
                                         THEN volume' ELSE volume' \div 10)
        /\ ( isVADMuted /\ OnSpeechEnded )
           => \A sink \in HeldSinks :
                 \E k \in (Len(fades) + 1)..Len(fades') :
                    /\ fades'[k].sink = sink
                    /\ fades'[k].target = NormalGain(sink) ]_vars

---------------------------------------------------------------------------
(* C16 *)

\* C16: a ramp issued on an Audio element that has a ramp in flight
\* supersedes it: a timer step writes an element's volume only for the last
\* ramp issued on that element, and a ramp starts from the volume the element
\* has when it is issued.
C16_NewRampSupersedes ==
    [][ /\ ( /\ timers # <<>>
             /\ FadeStep
             /\ sinks[fades[Head(timers)].sink].kind = "element" )
           => LastFadeOf(fades[Head(timers)].sink) = Head(timers)
        /\ \A k \in (Len(fades) + 1)..Len(fades') :
              fades'[k].start = sinks[fades'[k].sink].gain ]_vars

---------------------------------------------------------------------------
(* C17 *)

\* C17: the snapshots originalVolume and originalGain exist only from
\* onSpeechDetected until the matching onSpeechEnded has completed: when the
\* music is not ducked and no ramp is running both are null, and onSpeechEnded
\* ramps only sinks that onSpeechDetected snapshotted.
C17_SnapshotsScopedToEpisode ==
    /\ []( (~isVADMuted /\ timers = <<>>) =>
              (originalVolume = NoGain /\ originalGain = NoGain) )
    /\ [][ (isVADMuted /\ OnSpeechEnded) =>
              \A k \in (Len(fades) + 1)..Len(fades') :
                 RampsOf(fades'[k].sink, "duck") # {} ]_vars

---------------------------------------------------------------------------
---------------------------------------------------------------------------
\* The most recent entry before entry i that emitted an event, 0 if none.
PrevEvent(i) ==
    LET before == {j \in 1..(i - 1) : log[j].event # "none"}
    IN  IF before = {} THEN 0
        ELSE CHOOSE j \in before : \A k \in before : k <= j

\* C19: over any sequence of processVAD frames and setVADEnabled calls the
\* emitted events strictly alternate, starting with speechStart: speechStart
\* is emitted only when isSpeechActive goes from false to true and speechEnd
\* only when it goes from true to false, so no two speechStart events come
\* without a speechEnd between them and no speechEnd comes without an
\* unmatched speechStart before it.
C19_EventsAlternate ==
    \A i \in Entries :
        /\ log[i].event = "speechStart" =>
              /\ ~ActiveBefore(i)
              /\ log[i].active
              /\ PrevEvent(i) # 0 => log[PrevEvent(i)].event = "speechEnd"
        /\ log[i].event = "speechEnd" =>
              /\ ActiveBefore(i)
              /\ ~log[i].active
              /\ PrevEvent(i) # 0
              /\ log[PrevEvent(i)].event = "speechStart"

\* Two episodes in one run: speechStart, speechEnd and speechStart again.
C19_Witness ==
    \E i, j, k \in Entries :
        /\ i < j /\ j < k
        /\ log[i].event = "speechStart"
        /\ log[j].event = "speechEnd"
        /\ log[k].event = "speechStart"

---------------------------------------------------------------------------
\* C20: a zero-length frame yields energy 0 and is treated as silence:
\* calculateAudioEnergy on an empty sample array returns 0, not a
\* not-a-number result; after processVAD has processed such a frame the
\* smoothed energy is still a valid number, and a later loud frame, the
\* first frame with sound in the run, is detected as speech.
C20_EmptyFrameIsSilence ==
    \A i \in Entries :
        (IsFrame(i) /\ log[i].samples = 0) =>
            /\ log[i].inst = 0
            /\ \A j \in i..Len(log) : log[j].energy # NaN
            /\ \A j \in (i + 1)..Len(log) :
                  ( /\ IsFrame(j)
                    /\ log[j].samples > 0
                    /\ log[j].inst = 5000
                    /\ \A k \in 1..(j - 1) :
                          log[k].samples = 0 \/ log[k].inst = 0 )
                  => log[j].detected

---------------------------------------------------------------------------
\* C21: configuration values are clamped, never left out of range: after any
\* sequence of setVADThreshold and setVADDuckingFactor calls with any
\* argument the settings dialog can pass (below range, above range, or the
\* result of parsing an empty string), vadThreshold is within [0.001, 0.1]
\* and vadDuckingFactor within [0.1, 1.0].
C21_SettingsStayInRange ==
    /\ vadThreshold \in MinVadThreshold..MaxVadThreshold
    /\ vadDuckingFactor \in MinDuckingFactor..MaxDuckingFactor

---------------------------------------------------------------------------
\* The ramps with the given cause that a step appended for a sink.
NewRamps(sink, cause) ==
    {k \in (Len(fades) + 1)..Len(fades') :
        fades'[k].sink = sink /\ fades'[k].cause = cause}

---------------------------------------------------------------------------
\* The smoothed energies of the frames processed so far, in arrival order.
IsFrameEntry(entry) == entry.op = "processVAD"

FrameEnergies ==
    LET processed == SelectSeq(log, IsFrameEntry)
    IN  [i \in 1..Len(processed) |-> processed[i].energy]

\* C23: energyHistory never has more than maxHistoryLength (10) entries and
\* is a FIFO window: after each updateEnergyHistory call it holds exactly the
\* most recent min(n, 10) smoothed energies in arrival order, the oldest
\* evicted first.
C23_HistoryIsFifoWindow ==
    /\ Len(energyHistory) <= maxHistoryLength
    /\ LET n == Len(FrameEnergies)
           m == Min(n, maxHistoryLength)
       IN  energyHistory = [i \in 1..m |-> FrameEnergies[n - m + i]]

\* More frames than the window holds, and the values evicted differ from
\* the ones kept.
C23_Witness ==
    /\ Len(FrameEnergies) > maxHistoryLength + 1
    /\ Len(energyHistory) = maxHistoryLength
    /\ FrameEnergies[1] # energyHistory[1]
    /\ FrameEnergies[Len(FrameEnergies)] # energyHistory[maxHistoryLength - 1]

---------------------------------------------------------------------------
\* The window energyHistory held when the frame of entry i was classified:
\* the smoothed energies of the frames up to it, the last ten at most.
FramesUpTo(i) == {j \in 1..i : IsFrame(j)}

WindowAt(i) ==
    {j \in FramesUpTo(i) :
        Cardinality({k \in FramesUpTo(i) : k >= j}) <= maxHistoryLength}

RECURSIVE SumEnergies(_)
SumEnergies(S) ==
    IF S = {} THEN 0
    ELSE LET j == CHOOSE j \in S : TRUE
         IN  log[j].energy + SumEnergies(S \ {j})

MeanAt(i) == SumEnergies(WindowAt(i)) \div Cardinality(WindowAt(i))

\* C24: for every frame the decision threshold used by processVAD is
\* max(vadThreshold, 1.5 * mean(energyHistory)), the history already holding
\* the smoothed energy just computed; so the threshold is never below
\* vadThreshold, and a smoothed energy at or below vadThreshold is never
\* classified as speech.
C24_ThresholdIsFlooredMean ==
    \A i \in Entries :
        IsFrame(i) =>
            /\ log[i].threshold = Max(vadThreshold, (MeanAt(i) * 15) \div 10)
            /\ log[i].threshold >= vadThreshold
            /\ log[i].energy <= vadThreshold => ~log[i].detected
            /\ log[i].detected <=> log[i].energy > log[i].threshold

\* Both cases of the maximum in one run: a frame decided at the floor and a
\* frame decided at 1.5 times the mean, the latter after the window had
\* started to evict.
C24_Witness ==
    /\ \E i \in Entries :
          IsFrame(i) /\ log[i].threshold = vadThreshold /\ log[i].energy > 0
    /\ \E i \in Entries :
          /\ IsFrame(i)
          /\ log[i].threshold > vadThreshold
          /\ Cardinality(FramesUpTo(i)) > maxHistoryLength

---------------------------------------------------------------------------
\* C25: onSpeechEnded while not ducked (isVADMuted false) is a no-op: it
\* leaves isVADMuted, originalVolume, originalGain and every sink's gain
\* unchanged and starts no ramp.
C25_EndWhileNotDuckedIsNoOp ==
    [][ (~isVADMuted /\ OnSpeechEnded) =>
            UNCHANGED <<isVADMuted, originalVolume, originalGain, sinks,
                        fades, timers>> ]_vars

\* Not ducked, with music held and a snapshot left by an earlier episode
\* that a restore would ramp to: the state a call of onSpeechEnded must
\* leave alone.
C25_Witness ==
    /\ ~isVADMuted
    /\ scenario.phase = "restored"
    /\ timers = <<>>
    /\ \E sink \in HeldSinks :
          SnapshotOf(sink) # NoGain /\ sinks[sink].gain # 0

---------------------------------------------------------------------------
\* C26: every gain ramp terminates: a ramp runs exactly 20 timer steps, then
\* cancels its own timer and leaves its sink's gain exactly equal to the
\* requested target; no ramp timer keeps firing after its 20th step, under
\* any interleaving with other ramps, track switches or stopMusic.
C26_RampsTerminate ==
    /\ [](\A k \in 1..Len(fades) :
            /\ fades[k].step <= FadeSteps
            /\ (\E i \in 1..Len(timers) : timers[i] = k)
                  <=> fades[k].step < FadeSteps)
    /\ [][ (FadeStep /\ fades[Head(timers)].step + 1 = FadeSteps) =>
             sinks'[fades[Head(timers)].sink].gain
                 = fades[Head(timers)].target ]_vars

---------------------------------------------------------------------------
\* C27: pressing Cmd/Ctrl+M while the window is hidden shows the window and
\* sends no toggle-microphone message; pressing it while the window is
\* visible sends exactly one toggle-microphone message and leaves the window
\* visible; Escape hides the window when visible and does nothing when
\* hidden; so no shortcut pressed while the bar is hidden toggles the
\* microphone.
C27_ShortcutProtocol ==
    [][ /\ (PressCommandM /\ mainWindow = "hidden") =>
              /\ mainWindow' = "visible"
              /\ UNCHANGED <<toggleMessages, toggleSent>>
        /\ (PressCommandM /\ mainWindow = "visible") =>
              /\ mainWindow' = "visible"
              /\ toggleMessages' = toggleMessages + 1
              /\ toggleSent' = toggleSent + 1
        /\ PressEscape =>
              /\ mainWindow' = "hidden"
              /\ UNCHANGED <<toggleMessages, toggleSent>>
        /\ mainWindow = "hidden" => toggleSent' = toggleSent ]_vars

\* The bar was shown, the shortcut toggled the microphone on, and Escape hid
\* the bar again.
C27_Witness ==
    /\ mainWindow = "hidden"
    /\ toggleSent >= 1
    /\ toggleMessages = 0
    /\ rendererListening

---------------------------------------------------------------------------
\* C28: after any sequence of adjustVolume calls (volume_up / volume_down)
\* AudioSystem.volume is within [0.0, 1.0]; an adjustment that would leave
\* the range is clamped at the bound.
C28_VolumeStaysInRange ==
    /\ [](volume \in 0..1000)
    /\ [][ \A delta \in {VolumeDelta, 0 - VolumeDelta} :
             VolumeCommand(delta) =>
                 volume' = IF volume + delta > 1000 THEN 1000
                           ELSE IF volume + delta < 0 THEN 0
                           ELSE volume + delta ]_vars

\* The volume at a bound, where the next adjustment in the same direction
\* is clamped, with a track playing at it.
C28_Witness ==
    /\ volume \in {0, 1000}
    /\ currentAudio # 0
    /\ sinks[currentAudio].gain = volume

---------------------------------------------------------------------------
\* C29: when not ducked and with no ramp in flight, each sink's gain reflects
\* the user's volume setting: currentAudio.volume equals AudioSystem.volume
\* and the demo gain equals volume * 0.1, after any sequence of adjustVolume,
\* playTrack, onSpeechDetected and onSpeechEnded, including a volume
\* adjustment made while the music is ducked.
C29_GainFollowsVolume ==
    (~isVADMuted /\ timers = <<>>) =>
        \A sink \in HeldSinks : sinks[sink].gain = NormalGain(sink)

---------------------------------------------------------------------------
\* C30: at most one capture session exists at a time: under any interleaving
\* of toggleListening / startListening calls, a second call arriving while
\* the first awaits microphone access included, at most one microphone
\* stream, audio context and live transcription connection is open, and
\* every one that was opened is released by stopListening.
C30_OneCaptureSession ==
    /\ connections <= 1
    /\ streams <= 1
    /\ contexts <= 1
    /\ (~isListening /\ awaiting = 0) =>
          (connections = 0 /\ streams = 0 /\ contexts = 0)

---------------------------------------------------------------------------
\* The sources that were started and have not been paused or stopped.
Sounding == {i \in 1..Len(sinks) : sinks[i].live}

\* C31: at most one sound source is audible and stopMusic silences
\* everything: after any sequence of playTrack and playDemoTrack calls every
\* source that was started and is not the current one has been paused or
\* stopped, and after stopMusic no streamed element is playing and no
\* oscillator that was ever started is still running.
C31_OneSourceAudible ==
    /\ [](Cardinality(Sounding) <= 1)
    /\ [][ ExecuteCommand("stop") => \A i \in 1..Len(sinks') : ~sinks'[i].live ]_vars

---------------------------------------------------------------------------
(* AudioSystem: a music request, await by await *)

MaxRequests == 2

\* An executeCommand call and the await it is suspended at: "interpret"
\* (interpretMusicRequest), "search" (fetch), "play" (currentAudio.play()),
\* or how it ended.  stopped records that stopMusic ran while it waited.
InFlight == {"interpret", "search", "play"}
NoKey == "<pending>"

Staged(i, stage, key) ==
    [requests EXCEPT ![i] = [@ EXCEPT !.stage = stage, !.key = key]]

requestEnv == <<envVars, deepgram, vadEnabled, vadThreshold, currentEnergy,
                speechStartTime, lastSpeechTime, isSpeechActive,
                energyHistory, isInitialized, vadListeners, duckVars,
                vadDuckingFactor, mainVars, captureVars, freesoundApiKey,
                log, scenario>>

\* VoiceProductivityCompanion.initialize, AudioSystem.initialize included:
\* key is whether the main process hands over a Freesound API key.
InitializeAudio(key) ==
    /\ initialize
    /\ freesoundApiKey' = key
    /\ UNCHANGED <<envVars, isListening, vadEnabled, vadThreshold,
                   vadDuckingFactor, mainVars, captureVars, currentEnergy,
                   speechStartTime, lastSpeechTime, isSpeechActive,
                   energyHistory, rendererListening, audioVars, requests,
                   trackCache, log, scenario>>

\* playTrack up to its await: the current element is paused and dropped, and
\* only a track with a preview URL gets a new element at this.volume.
beginPlayTrack(track) ==
    LET paused == [i \in 1..Len(sinks) |->
                      IF i = currentAudio THEN [sinks[i] EXCEPT !.live = FALSE]
                                          ELSE sinks[i]]
    IN  IF track = "none"
           THEN /\ sinks' = paused
                /\ currentAudio' = 0
           ELSE /\ sinks' = Append(paused,
                       [kind |-> "element", gain |-> volume, live |-> TRUE])
                /\ currentAudio' = Len(sinks) + 1

\* playDemoTrack: a new oscillator and gain node; the reference to the
\* previous one is overwritten.
demoTone ==
    /\ sinks' = Append(sinks,
           [kind |-> "gainNode", gain |-> volume \div 10, live |-> TRUE])
    /\ demoAudio' = Len(sinks) + 1

\* findAndPlayTrack with a track in hand: playTrack returns at once without
\* a preview URL, and then executeCommand sets isPlaying and
\* handleVoiceCommand stops listening; otherwise it awaits play().
playFound(i, key, track) ==
    /\ track # "none" => Len(sinks) < MaxSinks
    /\ beginPlayTrack(track)
    /\ IF track = "none"
          THEN /\ isPlaying' = TRUE
               /\ requests' = Staged(i, "done", key)
               /\ stopListening
          ELSE /\ requests' = Staged(i, "play", key)
               /\ UNCHANGED <<isPlaying, isListening, rendererListening>>
    /\ UNCHANGED <<volume, demoAudio>>

\* playDemo as it would go if handleVoiceCommand did not catch the exception:
\* the statements after its try block are skipped.
playDemoUncaught(i, key, contextAvailable) ==
    IF contextAvailable
       THEN /\ Len(sinks) < MaxSinks
            /\ demoTone
            /\ isPlaying' = TRUE
            /\ requests' = Staged(i, "done", key)
            /\ UNCHANGED <<volume, currentAudio>>
            /\ stopListening
       ELSE /\ requests' = Staged(i, "failed", key)
            /\ UNCHANGED <<playbackVars, isListening, rendererListening>>

\* findAndPlayTrack falling back to playDemoTrack: with an audio context the
\* tone starts and executeCommand sets isPlaying; without one playDemoTrack
\* throws, executeCommand rejects and handleVoiceCommand catches it.
playDemo(i, key, contextAvailable) ==
    /\ IF contextAvailable
          THEN /\ Len(sinks) < MaxSinks
               /\ demoTone
               /\ isPlaying' = TRUE
               /\ requests' = Staged(i, "done", key)
               /\ UNCHANGED <<volume, currentAudio>>
          ELSE /\ requests' = Staged(i, "failed", key)
               /\ UNCHANGED playbackVars
    /\ stopListening

\* handleVoiceCommand on a music transcription, up to the await of
\* interpretMusicRequest.
MusicRequest ==
    /\ isListening
    /\ Len(requests) < MaxRequests
    /\ requests' = Append(requests,
           [stage |-> "interpret", key |-> NoKey, stopped |-> FALSE])
    /\ UNCHANGED <<requestEnv, playbackVars, trackCache, isListening,
                   rendererListening>>

\* handleVoiceCommand on "play" / "resume": resumeMusic does nothing while
\* isPlaying, and otherwise startBackgroundMusic issues a request.
ResumeCommand ==
    /\ isListening
    /\ IF isPlaying
          THEN /\ stopListening
               /\ UNCHANGED requests
          ELSE /\ Len(requests) < MaxRequests
               /\ requests' = Append(requests,
                      [stage |-> "interpret", key |-> NoKey, stopped |-> FALSE])
               /\ UNCHANGED <<isListening, rendererListening>>
    /\ UNCHANGED <<requestEnv, playbackVars, trackCache>>

\* handleVoiceCommand on "stop" / "pause": stopMusic, then stopListening.
StopCommand ==
    /\ isListening
    /\ stopMusic
    /\ requests' = [i \in 1..Len(requests) |->
                       IF requests[i].stage \in InFlight
                           THEN [requests[i] EXCEPT !.stopped = TRUE]
                           ELSE requests[i]]
    /\ stopListening
    /\ UNCHANGED <<requestEnv, trackCache>>

\* interpretMusicRequest settles with a query of cache key key, and
\* findAndPlayTrack runs to its next await.
InterpretDone(i, key, contextAvailable) ==
    /\ i \in 1..Len(requests)
    /\ requests[i].stage = "interpret"
    /\ IF trackCache[key] # NoTrack
          THEN playFound(i, key, trackCache[key])
          ELSE IF ~freesoundApiKey
          THEN playDemo(i, key, contextAvailable)
          ELSE /\ requests' = Staged(i, "search", key)
               /\ UNCHANGED <<playbackVars, isListening, rendererListening>>
    /\ UNCHANGED <<requestEnv, trackCache>>

\* The search settles: result is the first track of the results, or NoTrack
\* for no results or a failed fetch.
SearchDone(i, result, contextAvailable) ==
    /\ i \in 1..Len(requests)
    /\ requests[i].stage = "search"
    /\ IF result # NoTrack
          THEN /\ trackCache' = [trackCache EXCEPT ![requests[i].key] = result]
               /\ playFound(i, requests[i].key, result)
          ELSE /\ playDemo(i, requests[i].key, contextAvailable)
               /\ UNCHANGED trackCache
    /\ UNCHANGED requestEnv

\* currentAudio.play() settles, resolved or rejected: findAndPlayTrack
\* returns the track, executeCommand sets isPlaying and handleVoiceCommand
\* stops listening.
PlaySettled(i) ==
    /\ i \in 1..Len(requests)
    /\ requests[i].stage = "play"
    /\ isPlaying' = TRUE
    /\ requests' = Staged(i, "done", requests[i].key)
    /\ stopListening
    /\ UNCHANGED <<requestEnv, trackCache, volume, currentAudio, demoAudio,
                   sinks>>

PlaybackNext ==
    \/ \E key \in BOOLEAN : InitializeAudio(key)
    \/ StartListening(TRUE)
    \/ StopListening
    \/ MusicRequest
    \/ ResumeCommand
    \/ StopCommand
    \/ \E i \in 1..MaxRequests, key \in CacheKeys, contextAvailable \in BOOLEAN :
          InterpretDone(i, key, contextAvailable)
    \/ \E i \in 1..MaxRequests, result \in Tracks \cup {NoTrack},
          contextAvailable \in BOOLEAN :
          SearchDone(i, result, contextAvailable)
    \/ \E i \in 1..MaxRequests : PlaySettled(i)

PlaybackSpec == Init /\ [][PlaybackNext]_vars

---------------------------------------------------------------------------
\* Request i was awaiting a result when stopMusic ran, and resumes in this
\* step.
ResumesAfterStop(i) ==
    /\ requests[i].stopped
    /\ requests'[i].stage # requests[i].stage

\* C32: once stopMusic has run, isPlaying stays false and no sink is started
\* until a play or music request issued after the stop: a request that was
\* already awaiting its interpretation, search or play() result when
\* stopMusic ran starts no sink and does not set isPlaying when it resumes.
C32_StoppedRequestsStaySilent ==
    [][ \A i \in 1..Len(requests) :
           ResumesAfterStop(i) =>
               /\ isPlaying' = isPlaying
               /\ Len(sinks') = Len(sinks) ]_vars

---------------------------------------------------------------------------
\* C33: whenever isPlaying is true at least one sink exists: currentAudio or
\* demoAudio is non-null, for every outcome of findAndPlayTrack, a search
\* result without a preview URL included.
C33_PlayingHasSink ==
    isPlaying => (currentAudio # 0 \/ demoAudio # 0)

---------------------------------------------------------------------------
\* The handleVoiceCommand call behind request i returns in this step.
Completes(i) ==
    /\ requests[i].stage \in InFlight
    /\ requests'[i].stage \in {"done", "failed"}

\* C34: every non-empty transcription ends the capture session: when
\* handleVoiceCommand completes, whether the command succeeded or
\* executeCommand threw, stopListening has been called and both the
\* renderer's isListening and the VoiceProcessor's isListening are false.
C34_CommandEndsCapture ==
    [][ ( \/ \E i \in 1..Len(requests) : Completes(i)
          \/ StopCommand
          \/ (isPlaying /\ ResumeCommand) )
        => (~isListening' /\ ~rendererListening') ]_vars

\* A command failed and a command succeeded, and the session is over.
C34_Witness ==
    /\ \E i \in 1..Len(requests) : requests[i].stage = "failed"
    /\ \E i \in 1..Len(requests) : requests[i].stage = "done"
    /\ ~isListening
    /\ ~rendererListening

---------------------------------------------------------------------------
\* C35: while vadEnabled is false processVAD returns false, emits no event
\* and leaves currentEnergy, energyHistory, speechStartTime, lastSpeechTime
\* and isSpeechActive unchanged, for every frame.
C35_DisabledFramesChangeNothing ==
    [][ (~vadEnabled /\ frames' # frames) =>
           /\ \A amplitude \in Amplitudes :
                 ~processVADReturn(Frame(amplitude), now')
           /\ log' = log
           /\ fades' = fades
           /\ UNCHANGED <<currentEnergy, energyHistory, speechStartTime,
                          lastSpeechTime, isSpeechActive>> ]_vars

\* Frames were processed, then the detector was disabled and further frames
\* arrived: they left no entry, and the energy of the earlier ones is kept.
C35_Witness ==
    /\ ~vadEnabled
    /\ currentEnergy > 0
    /\ Len(SelectSeq(log, IsFrameEntry)) + 2 <= frames

---------------------------------------------------------------------------
\* This step is the processVAD call that finds energyHistory empty.
FirstFrame ==
    /\ energyHistory = <<>>
    /\ Len(log') = Len(log) + 1
    /\ IsFrameEntry(log'[Len(log')])

\* C36: with an empty energyHistory the first frame processVAD processes is
\* never classified as speech, whatever its energy: the history then holds
\* only the frame's own smoothed energy, so the threshold is at least 1.5
\* times that value, and speechStartTime stays null.
C36_FirstFrameIsNeverSpeech ==
    [][ FirstFrame =>
           LET entry == log'[Len(log')]
           IN  /\ energyHistory' = <<entry.energy>>
               /\ 10 * entry.threshold >= 15 * entry.energy - 9
               /\ ~entry.detected
               /\ speechStartTime' = Null ]_vars

\* The first frame was loud: its smoothed energy is above vadThreshold, and
\* it was still not taken for speech.
C36_Witness ==
    /\ Len(log) >= 1
    /\ IsFrameEntry(log[1])
    /\ log[1].energy > vadThreshold
    /\ ~log[1].detected
    /\ Len(energyHistory) = 1
    /\ speechStartTime = Null

---------------------------------------------------------------------------
\* findAndPlayTrack starts for request i in this step, with cache key key.
Looks(i, key) ==
    /\ requests[i].stage = "interpret"
    /\ requests'[i].stage # "interpret"
    /\ requests'[i].key = key

\* C37: findAndPlayTrack for a key already in trackCache plays the cached
\* track without issuing a search; an entry is added to trackCache only for
\* a track returned by a successful search, never for a demo tone; and an
\* existing entry is never replaced or removed.
C37_TrackCache ==
    /\ [][ \A i \in 1..Len(requests), key \in CacheKeys :
              (Looks(i, key) /\ trackCache[key] # NoTrack) =>
                  /\ requests'[i].stage \in {"play", "done"}
                  /\ demoAudio' = demoAudio
                  /\ trackCache[key] # "none" =>
                        (currentAudio' = Len(sinks') /\ Len(sinks') > Len(sinks)) ]_vars
    /\ [][ \A key \in CacheKeys :
              trackCache'[key] # trackCache[key] =>
                  /\ trackCache'[key] \in Tracks
                  /\ demoAudio' = demoAudio
                  /\ \E i \in 1..Len(requests) :
                        /\ requests[i].stage = "search"
                        /\ requests[i].key = key ]_vars
    /\ [][ \A key \in CacheKeys :
              trackCache[key] # NoTrack => trackCache'[key] = trackCache[key] ]_vars

---------------------------------------------------------------------------
\* C38: the smoothed energy stays bounded: starting from 0, after any
\* sequence of frames with instantaneous energies in [0, E], currentEnergy
\* is within [0, E] after every processVAD call; E is taken as the largest
\* instantaneous energy among the frames processed so far.
C38_SmoothedEnergyBounded ==
    /\ currentEnergy >= 0
    /\ \/ currentEnergy = 0
       \/ \E j \in Entries : IsFrame(j) /\ currentEnergy <= log[j].inst
    /\ \A i \in Entries :
          IsFrame(i) =>
              /\ log[i].energy >= 0
              /\ \E j \in 1..i : IsFrame(j) /\ log[i].energy <= log[j].inst

\* A loud frame and then a quieter one: the smoothed energy lies above the
\* last instantaneous energy and below the loudest.
C38_Witness ==
    /\ Len(log) >= 2
    /\ IsFrame(Len(log))
    /\ log[Len(log)].inst > 0
    /\ currentEnergy > log[Len(log)].inst
    /\ \E j \in Entries : IsFrame(j) /\ log[j].inst > currentEnergy

=============================================================================
